---- MODULE Spec2Model ----
(***************************************************************************)
(* Model of dynophores/viz/plot/static.py: the table preparation helper    *)
(* (_prepare_dataframe_for_plotting, _slice_dataframe_rows), the name      *)
(* normalisation helper (_format_superfeature_names) and the five plotting *)
(* entry points that use them.                                             *)
(*                                                                         *)
(* A DataFrame is a record                                                 *)
(*    [columns |-> sequence of column labels,                              *)
(*     index   |-> sequence of row labels,                                 *)
(*     values  |-> one sequence of cells per column (column-major)]        *)
(* A Python str is a sequence of one-character strings, so that iterating  *)
(* a str, taking its len() and the substring test "x in s" can be          *)
(* computed.  A Python value whose type the code inspects is a record      *)
(* [type |-> "str" | "list" | "tuple", value |-> ...].                     *)
(* A frame range [start, end] is <<start, e>> with e = <<>> for None and   *)
(* e = <<end>> for an integer end.                                         *)
(***************************************************************************)
EXTENDS Integers, Sequences, FiniteSets

VARIABLES
    pc,         \* position in the running call: "idle", a step, "returned", "raised"
    call,       \* the running call: the function and its arguments
    names,      \* superfeature_names after _format_superfeature_names
    i,          \* number of completed loop iterations
    source,     \* the table most recently read from the dynophore (history)
    data,       \* the local `data` / `occurrences` table
    distances,  \* the local `distances` table of envpartners_all_in_one
    fig,        \* the figure: created?, number of plot areas, titles, contents
    reads,      \* the dynophore tables accessed so far, <<table, key>> (history)
    exc         \* the exception that ended the call, or "none"

vars == <<pc, call, names, i, source, data, distances, fig, reads, exc>>

---------------------------------------------------------------------------
(* Bounds of the model *)

MaxRows == 3
MaxCols == 2
MaxStep == 2
MaxFrames == 2
MaxNames == 2

(* The missing marker (Python None / NaN) that replaces a 0 occurrence. *)
NoneCell == -1

---------------------------------------------------------------------------
(* Generic helpers *)

Range(s) == {s[k] : k \in 1..Len(s)}

Min(a, b) == IF a <= b THEN a ELSE b

NoDataFrame == [columns |-> <<>>, index |-> <<>>, values |-> <<>>]

NRows(df) == Len(df.index)

NCols(df) == Len(df.columns)

(* A freshly built table has pandas' default RangeIndex 0..n-1. *)
RangeIndex(n) == [k \in 1..n |-> k - 1]

(* All tables with the given column labels, 1..maxrows rows and cells in V *)
TablesOver(cols, V, maxrows) ==
    UNION {{[columns |-> cols, index |-> RangeIndex(n), values |-> v] :
              v \in [1..Len(cols) -> [1..n -> V]]} : n \in 1..maxrows}

(* Python's builtin sum over a column: left fold starting at 0 *)
RECURSIVE PySum(_)
PySum(s) == IF s = <<>> THEN 0 ELSE PySum(SubSeq(s, 1, Len(s) - 1)) + s[Len(s)]

---------------------------------------------------------------------------
(* _prepare_dataframe_for_plotting, line 381:                              *)
(*   dataframe.apply(sum).sort_values(ascending=False).index               *)
(* The orders of the positions by descending sum.  The order of equal sums *)
(* is left to the sort of the installed pandas/numpy (input order with one *)
(* version, reversed with another), so every order of a tie is an outcome. *)

RECURSIVE SortValuesDescending(_, _)
SortValuesDescending(sums, remaining) ==
    IF remaining = {} THEN {<<>>}
    ELSE UNION { { <<j>> \o rest :
                     rest \in SortValuesDescending(sums, remaining \ {j}) } :
                 j \in { m \in remaining :
                           \A k \in remaining : sums[m] >= sums[k] } }

(* Faulty variant: the columns are left in their input order *)
SortedColumnsUnsorted(df) == { [j \in 1..NCols(df) |-> j] }

SortedColumns(df) ==
    SortValuesDescending([j \in 1..NCols(df) |-> PySum(df.values[j])],
                         1..NCols(df))

(* Position of a column label in a table *)
ColumnPosition(df, c) == CHOOSE j \in 1..NCols(df) : df.columns[j] = c

(* line 382: dataframe[sorted_columns] *)
SelectColumns(df, order) ==
    [columns |-> [j \in 1..Len(order) |-> df.columns[order[j]]],
     index   |-> df.index,
     values  |-> [j \in 1..Len(order) |-> df.values[order[j]]]]

(* itertools.islice(iterable, start, stop, step): the items at positions   *)
(* start, start+step, ... below min(stop, len).  Python raises ValueError  *)
(* for a negative start or stop and for a step below 1.                    *)
IsliceInvalid(start, stop, step) == start < 0 \/ stop < 0 \/ step < 1

(* Faulty variant: the step size is ignored, every item is taken *)
RECURSIVE IsliceEveryItem(_, _, _, _)
IsliceEveryItem(s, start, stop, step) ==
    IF start >= Min(stop, Len(s)) THEN <<>>
    ELSE <<s[start + 1]>> \o IsliceEveryItem(s, start + 1, stop, step)

RECURSIVE Islice(_, _, _, _)
Islice(s, start, stop, step) ==
    IF start >= Min(stop, Len(s)) THEN <<>>
    ELSE <<s[start + 1]>> \o Islice(s, start + step, stop, step)

(* dataframe.iloc[positions, :] : rows by position *)
IlocPosition(df, p) == IF p < 0 THEN p + NRows(df) ELSE p

Iloc(df, positions) ==
    [columns |-> df.columns,
     index   |-> [k \in 1..Len(positions) |->
                    df.index[IlocPosition(df, positions[k]) + 1]],
     values  |-> [j \in 1..NCols(df) |->
                    [k \in 1..Len(positions) |->
                       df.values[j][IlocPosition(df, positions[k]) + 1]]]]

(* iloc counts a negative position from the end; IndexError only for a
   position outside -n..n-1 *)
IlocInvalid(df, positions) ==
    \E k \in 1..Len(positions) :
        positions[k] < -NRows(df) \/ positions[k] >= NRows(df)

(* Faulty variant: the end index is exclusive (the "+ 1" is missing) *)
IxEndExclusive(df, ix_range) ==
    IF ix_range[2] = <<>> THEN NRows(df) ELSE ix_range[2][1]

(* _slice_dataframe_rows, lines 416-420: the exclusive stop index *)
IxEnd(df, ix_range) ==
    (IF ix_range[2] = <<>> THEN NRows(df) ELSE ix_range[2][1]) + 1

(* _slice_dataframe_rows *)
SliceDataframeRows(df, ix_range, ix_step_size) ==
    LET ix_start == ix_range[1]
        ix_end   == IxEnd(df, ix_range)
    IN  IF IsliceInvalid(ix_start, ix_end, ix_step_size)
        THEN [exc |-> "ValueError", df |-> NoDataFrame]
        ELSE LET selected_indices == Islice(df.index, ix_start, ix_end, ix_step_size)
             IN  IF IlocInvalid(df, selected_indices)
                 THEN [exc |-> "IndexError", df |-> NoDataFrame]
                 ELSE [exc |-> "none", df |-> Iloc(df, selected_indices)]

(* line 393: data.replace([0, 1], [None, i + 1]) for the column at         *)
(* enumerate position i (0-based); here rank = i + 1                       *)
(* Faulty variant: the rank is the 0-based enumerate position *)
ReplaceCellZeroBased(v, rank) ==
    IF v = 0 THEN NoneCell ELSE IF v = 1 THEN rank - 1 ELSE v

ReplaceCell(v, rank) ==
    IF v = 0 THEN NoneCell ELSE IF v = 1 THEN rank ELSE v

(* lines 390-395; pd.DataFrame of an empty dict has no rows either *)
RankRecode(df) ==
    [columns |-> df.columns,
     index   |-> IF NCols(df) = 0 THEN <<>> ELSE df.index,
     values  |-> [j \in 1..NCols(df) |->
                    [k \in 1..NRows(df) |-> ReplaceCell(df.values[j][k], j)]]]

(* _prepare_dataframe_for_plotting *)
PrepareDataframeForPlotting(df, frame_range, frame_step_size, is_occurrences) ==
    { LET sorted == SelectColumns(df, sorted_columns)
          sliced == SliceDataframeRows(sorted, frame_range, frame_step_size)
      IN  IF sliced.exc # "none" THEN sliced
          ELSE IF is_occurrences
               THEN [exc |-> "none", df |-> RankRecode(sliced.df)]
          ELSE sliced :
      sorted_columns \in SortedColumns(df) }

---------------------------------------------------------------------------
(* Inputs of the helpers *)

(* Column labels (environment partner names) of the tables *)
ColumnLabels == <<"ILE10", "LYS20", "VAL18", "GLU81">>

Occurrences == {0, 1}

(* Distances are reals: 0 and 1 are the values the recoding looks for, 2   *)
(* stands for every other distance.                                        *)
DistanceValues == {0, 1, 2}

TablesWith(V, maxrows) ==
    UNION {TablesOver(SubSeq(ColumnLabels, 1, m), V, maxrows) : m \in 1..MaxCols}

OccurrenceTables == TablesWith(Occurrences, MaxRows)

(* [start, end]: start from 0 to beyond the last row of the shorter        *)
(* tables, end an integer from -2 to beyond the last row, or None          *)
FrameRanges ==
    {<<s, e>> : s \in 0..MaxRows,
                e \in {<<>>} \cup {<<x>> : x \in (-2)..MaxRows}}

FrameStepSizes == 1..MaxStep

NoCall == [fn |-> "none"]

NoNames == [type |-> "list", value |-> <<>>]

NoFigure == [created |-> FALSE, nrows |-> 0, titles |-> <<>>, plotted |-> <<>>]

(* The result of a helper call becomes the state after the call *)
Outcome(r) ==
    /\ data' = r.df
    /\ exc' = r.exc
    /\ pc' = IF r.exc = "none" THEN "returned" ELSE "raised"

---------------------------------------------------------------------------
(* Specification of direct calls of the two table helpers *)

Init ==
    /\ pc = "idle"
    /\ call = NoCall
    /\ names = NoNames
    /\ i = 0
    /\ source = NoDataFrame
    /\ data = NoDataFrame
    /\ distances = NoDataFrame
    /\ fig = NoFigure
    /\ reads = <<>>
    /\ exc = "none"

CallPrepareDataframeForPlotting ==
    /\ pc = "idle"
    /\ \E df \in OccurrenceTables, fr \in FrameRanges, st \in FrameStepSizes,
          occ \in BOOLEAN :
          /\ call' = [fn |-> "_prepare_dataframe_for_plotting", dataframe |-> df,
                      frame_range |-> fr, frame_step_size |-> st,
                      is_occurrences |-> occ]
          /\ \E r \in PrepareDataframeForPlotting(df, fr, st, occ) : Outcome(r)
    /\ UNCHANGED <<names, i, source, distances, fig, reads>>

CallSliceDataframeRows ==
    /\ pc = "idle"
    /\ \E df \in OccurrenceTables, fr \in FrameRanges, st \in FrameStepSizes :
          /\ call' = [fn |-> "_slice_dataframe_rows", dataframe |-> df,
                      frame_range |-> fr, frame_step_size |-> st]
          /\ Outcome(SliceDataframeRows(df, fr, st))
    /\ UNCHANGED <<names, i, source, distances, fig, reads>>

NextPrepare ==
    \/ CallPrepareDataframeForPlotting
    \/ CallSliceDataframeRows

SpecPrepare == Init /\ [][NextPrepare]_vars

---------------------------------------------------------------------------
(* The dynophore data object and the arguments of the plotting functions *)

ALL == <<"a", "l", "l">>

AR == <<"A", "R">>

HBA == <<"H", "B", "A">>

UnknownName == <<"x", "x", "x">>

UnknownNameWithAll == <<"w", "a", "l", "l">>

(* The superfeatures of the dynophore, in the column order of its tables *)
SuperfeatureNames == <<AR, HBA>>

KnownNames == Range(SuperfeatureNames)

(* dynophore._raise_keyerror_if_invalid_superfeature_name raises for a     *)
(* name that is not a superfeature of the dynophore                        *)
IsInvalidSuperfeatureName(name) == name \notin KnownNames

(* dynophore.envpartners_occurrences / envpartners_distances are keyed by  *)
(* superfeature name: any other key is a KeyError                          *)
IsMissingKey(key) == key \notin KnownNames

Str(v) == [type |-> "str", value |-> v]

List(v) == [type |-> "list", value |-> v]

Tuple(v) == [type |-> "tuple", value |-> v]

(* Sequences of at most MaxNames distinct names *)
NameSeqs(S) ==
    UNION {{q \in [1..n -> S] : \A a, b \in 1..n : a # b => q[a] # q[b]} :
             n \in 0..MaxNames}

(* superfeature_names: a str, a list of str or a tuple of str *)
Selectors ==
    {Str(n) : n \in KnownNames \cup {ALL, UnknownName, UnknownNameWithAll}}
    \cup {List(q) : q \in NameSeqs(KnownNames \cup {ALL, UnknownName})}
    \cup {Tuple(q) : q \in NameSeqs(KnownNames \cup {ALL, UnknownName})}

(* superfeature_name of envpartners_all_in_one: a str or a tuple of str *)
SingleSelectors ==
    {Str(n) : n \in KnownNames \cup {ALL, UnknownName}}
    \cup {Tuple(q) : q \in NameSeqs(KnownNames \cup {UnknownName})}

Kinds == {"line", "hist", "bar"}

(* dynophore.frequency: one column per superfeature, the row "any" and one *)
(* row per environment partner, cells in percent                           *)
FrequencyTables ==
    {[columns |-> SuperfeatureNames, index |-> <<"any", ColumnLabels[1]>>,
      values |-> v] : v \in [1..Len(SuperfeatureNames) -> [1..2 -> {0, 50}]]}

---------------------------------------------------------------------------
(* Python values *)

(* len(x) of a str, list or tuple *)
PyLen(x) == Len(x.value)

(* the items a for loop over x yields: the characters of a str (each a     *)
(* str of length 1), the elements of a list                                *)
PyItems(x) ==
    IF x.type = "str" THEN [k \in 1..Len(x.value) |-> <<x.value[k]>>]
    ELSE x.value

(* "all" in x: substring test on a str, membership test on a list *)
ContainsAll(x) ==
    IF x.type = "str"
    THEN \E k \in 0..(Len(x.value) - Len(ALL)) :
            SubSeq(x.value, k + 1, k + Len(ALL)) = ALL
    ELSE \E k \in 1..Len(x.value) : x.value[k] = ALL

(* lines 455-456: some name of the list is refused by the dynophore *)
HasInvalidName(q) == \E k \in 1..Len(q) : IsInvalidSuperfeatureName(q[k])

(* _format_superfeature_names, lines 446-458 *)
FormatSuperfeatureNames(superfeature_names) ==
    LET x == IF superfeature_names.type = "tuple"
             THEN List(superfeature_names.value)
             ELSE superfeature_names
    IN  IF ContainsAll(x) THEN [exc |-> "none", value |-> Str(ALL)]
        ELSE LET l == IF x.type # "list" THEN List(<<x.value>>) ELSE x
             IN  IF HasInvalidName(l.value)
                 THEN [exc |-> "KeyError:name", value |-> l]
                 ELSE [exc |-> "none", value |-> l]

---------------------------------------------------------------------------
(* pandas / matplotlib / seaborn calls on degenerate tables.  Where the    *)
(* outcome depends on the installed library version, every outcome such a  *)
(* build can show is possible.                                             *)

(* data.isna().all().all(): every cell is missing (true of an empty table) *)
AllMissing(df) ==
    \A j \in 1..NCols(df) : \A k \in 1..NRows(df) : df.values[j][k] = NoneCell

(* DataFrame.plot: "no numeric data to plot" for a table without values *)
PlotOutcomes(df) ==
    IF AllMissing(df) THEN {"none", "TypeError"} ELSE {"none"}

(* plt.subplots with no rows, or with a figure height of 0 *)
SubplotsOutcomes(n) == IF n = 0 THEN {"none", "ValueError"} ELSE {"none"}

(* sns.heatmap of a table without rows or columns *)
HeatmapOutcomes(df) ==
    IF NRows(df) = 0 \/ NCols(df) = 0 THEN {"none", "ValueError"} ELSE {"none"}

CellsOf(df) == UNION {Range(df.values[j]) : j \in 1..NCols(df)}

(* lines 259-262: int(np.floor(data.min().min())) fails on an empty table  *)
(* (NaN); np.arange(floor, ceil, 0.1) is empty when floor = ceil           *)
HistOutcomes(df) ==
    IF NRows(df) = 0 THEN {"ValueError"}
    ELSE IF Cardinality(CellsOf(df)) = 1 THEN {"none", "ValueError"}
    ELSE {"none"}

(* data[superfeature_names]: the named columns, in the order of the names *)
SelectColumnsByLabel(df, labels) ==
    SelectColumns(df, [k \in 1..Len(labels) |-> ColumnPosition(df, labels[k])])

(* The positions of a set in ascending order (a boolean row mask keeps     *)
(* the order of the rows)                                                  *)
RECURSIVE Ascending(_)
Ascending(S) ==
    IF S = {} THEN <<>>
    ELSE LET m == CHOOSE m \in S : \A k \in S : m <= k
         IN  <<m>> \o Ascending(S \ {m})

(* lines 41-46: columns by descending "any" frequency, then the selected   *)
(* superfeatures and only the rows that are not 0 everywhere; one outcome  *)
(* per order sort_values may give to equal frequencies                     *)
FrequencyData(frequency, superfeature_names) ==
    { LET by_any == SelectColumns(frequency, order)
      IN  IF superfeature_names = Str(ALL) THEN by_any
          ELSE LET sel  == SelectColumnsByLabel(by_any, superfeature_names.value)
                   keep == {k \in 1..NRows(sel) :
                              ~(\A j \in 1..NCols(sel) : sel.values[j][k] = 0)}
                   rows == Ascending(keep)
               IN  [columns |-> sel.columns,
                    index   |-> [k \in 1..Len(rows) |-> sel.index[rows[k]]],
                    values  |-> [j \in 1..NCols(sel) |->
                                   [k \in 1..Len(rows) |-> sel.values[j][rows[k]]]]] :
      order \in SortValuesDescending(
                   [j \in 1..NCols(frequency) |-> frequency.values[j][1]],
                   1..NCols(frequency)) }

Read(table, key) == [table |-> table, key |-> key]

Raise(e) == pc' = "raised" /\ exc' = e

---------------------------------------------------------------------------
(* The plotting entry points *)

CallSuperfeaturesVsEnvpartners ==
    /\ pc = "idle"
    /\ \E sel \in Selectors :
          call' = [fn |-> "superfeatures_vs_envpartners", superfeature_names |-> sel]
    /\ pc' = "format"
    /\ UNCHANGED <<names, i, source, data, distances, fig, reads, exc>>

CallSuperfeaturesOccurrences ==
    /\ pc = "idle"
    /\ \E sel \in Selectors, fr \in FrameRanges, st \in FrameStepSizes :
          call' = [fn |-> "superfeatures_occurrences", superfeature_names |-> sel,
                   frame_range |-> fr, frame_step_size |-> st]
    /\ pc' = "format"
    /\ UNCHANGED <<names, i, source, data, distances, fig, reads, exc>>

CallEnvpartnersOccurrences ==
    /\ pc = "idle"
    /\ \E sel \in Selectors, fr \in FrameRanges, st \in FrameStepSizes :
          call' = [fn |-> "envpartners_occurrences", superfeature_names |-> sel,
                   frame_range |-> fr, frame_step_size |-> st]
    /\ pc' = "format"
    /\ UNCHANGED <<names, i, source, data, distances, fig, reads, exc>>

CallEnvpartnersDistances ==
    /\ pc = "idle"
    /\ \E sel \in Selectors, kind \in Kinds, fr \in FrameRanges,
          st \in FrameStepSizes :
          call' = [fn |-> "envpartners_distances", superfeature_names |-> sel,
                   kind |-> kind, frame_range |-> fr, frame_step_size |-> st]
    /\ pc' = "format"
    /\ UNCHANGED <<names, i, source, data, distances, fig, reads, exc>>

CallEnvpartnersAllInOne ==
    /\ pc = "idle"
    /\ \E sel \in SingleSelectors, fr \in FrameRanges, st \in FrameStepSizes :
          call' = [fn |-> "envpartners_all_in_one", superfeature_names |-> sel,
                   frame_range |-> fr, frame_step_size |-> st]
    /\ pc' = "format"
    /\ UNCHANGED <<names, i, source, data, distances, fig, reads, exc>>

(* Faulty variant: the names are formatted and validated only after the  *)
(* first table of the dynophore has been accessed                        *)
FormatNamesAfterData ==
    /\ pc = "format"
    /\ call.fn # "envpartners_all_in_one"
    /\ reads' = Append(reads,
                       Read(IF call.fn = "superfeatures_vs_envpartners"
                            THEN "frequency"
                            ELSE IF call.fn = "superfeatures_occurrences"
                                 THEN "superfeatures_occurrences"
                                 ELSE call.fn, <<>>))
    /\ LET r == FormatSuperfeatureNames(call.superfeature_names)
       IN  IF r.exc # "none"
           THEN Raise(r.exc) /\ UNCHANGED names
           ELSE /\ names' = r.value
                /\ pc' = IF call.fn \in {"superfeatures_vs_envpartners",
                                         "superfeatures_occurrences"}
                         THEN "data" ELSE "figure"
                /\ UNCHANGED exc
    /\ UNCHANGED <<call, i, source, data, distances, fig>>

(* lines 38, 90, 151, 228: superfeature_names = _format_superfeature_names *)
FormatNames ==
    /\ pc = "format"
    /\ call.fn # "envpartners_all_in_one"
    /\ LET r == FormatSuperfeatureNames(call.superfeature_names)
       IN  IF r.exc # "none"
           THEN Raise(r.exc) /\ UNCHANGED names
           ELSE /\ names' = r.value
                /\ pc' = IF call.fn \in {"superfeatures_vs_envpartners",
                                         "superfeatures_occurrences"}
                         THEN "data" ELSE "figure"
                /\ UNCHANGED exc
    /\ UNCHANGED <<call, i, source, data, distances, fig, reads>>

(* envpartners_all_in_one, lines 297-299 *)
AllInOneName ==
    /\ pc = "format"
    /\ call.fn = "envpartners_all_in_one"
    /\ LET x == call.superfeature_names
       IN  IF x.type = "tuple" /\ Len(x.value) = 0
           THEN Raise("IndexError") /\ UNCHANGED names
           ELSE LET name == IF x.type = "tuple" THEN x.value[1] ELSE x.value
                IN  IF IsInvalidSuperfeatureName(name)
                    THEN Raise("KeyError:name") /\ UNCHANGED names
                    ELSE names' = Str(name) /\ pc' = "data" /\ UNCHANGED exc
    /\ UNCHANGED <<call, i, source, data, distances, fig, reads>>

(* superfeatures_vs_envpartners, lines 41-46 *)
VsEnvpartnersData ==
    /\ pc = "data"
    /\ call.fn = "superfeatures_vs_envpartners"
    /\ \E frequency \in FrequencyTables :
          /\ source' = frequency
          /\ data' \in FrequencyData(frequency, names)
    \* dynophore.frequency is accessed at line 41 and again at line 42
    /\ reads' = reads \o <<Read("frequency", <<>>), Read("frequency", <<>>)>>
    /\ pc' = "figure"
    /\ UNCHANGED <<call, names, i, distances, fig, exc>>

(* superfeatures_vs_envpartners, lines 48-53 *)
VsEnvpartnersFigure ==
    /\ pc = "figure"
    /\ call.fn = "superfeatures_vs_envpartners"
    /\ fig' = [created |-> TRUE, nrows |-> 1, titles |-> <<>>,
               plotted |-> <<"heatmap">>]
    /\ \E e \in HeatmapOutcomes(data) :
          IF e = "none" THEN pc' = "returned" /\ UNCHANGED exc ELSE Raise(e)
    /\ UNCHANGED <<call, names, i, source, data, distances, reads>>

(* superfeatures_occurrences, lines 93-96 *)
OccurrencesData ==
    /\ pc = "data"
    /\ call.fn = "superfeatures_occurrences"
    /\ reads' = Append(reads, Read("superfeatures_occurrences", <<>>))
    /\ \E t \in TablesOver(SuperfeatureNames, Occurrences, MaxFrames) :
          LET selected == IF names = Str(ALL) THEN t
                          ELSE SelectColumnsByLabel(t, names.value)
          IN  \E r \in PrepareDataframeForPlotting(selected, call.frame_range,
                                                   call.frame_step_size, TRUE) :
              /\ source' = t
              /\ IF r.exc # "none" THEN Raise(r.exc) /\ UNCHANGED data
                 ELSE data' = r.df /\ pc' = "figure" /\ UNCHANGED exc
    /\ UNCHANGED <<call, names, i, distances, fig>>

(* superfeatures_occurrences, line 108 *)
OccurrencesFigure ==
    /\ pc = "figure"
    /\ call.fn = "superfeatures_occurrences"
    /\ \E e \in SubplotsOutcomes(NCols(data)) :
          IF e = "none"
          THEN /\ fig' = [created |-> TRUE, nrows |-> 1, titles |-> <<>>,
                          plotted |-> <<>>]
               /\ pc' = "plot"
               /\ UNCHANGED exc
          ELSE Raise(e) /\ UNCHANGED fig
    /\ UNCHANGED <<call, names, i, source, data, distances, reads>>

(* superfeatures_occurrences, lines 109-118 *)
OccurrencesPlot ==
    /\ pc = "plot"
    /\ call.fn = "superfeatures_occurrences"
    /\ \E e \in PlotOutcomes(data) :
          IF e # "none" THEN Raise(e) /\ UNCHANGED fig
          ELSE /\ fig' = [fig EXCEPT !.plotted = <<"barcode">>]
               /\ IF NRows(data) = 0 THEN Raise("IndexError")
                  ELSE pc' = "returned" /\ UNCHANGED exc
    /\ UNCHANGED <<call, names, i, source, data, distances, reads>>

(* envpartners_occurrences, lines 153-158; envpartners_distances, 230-235 *)
EnvpartnersFigure ==
    /\ pc = "figure"
    /\ call.fn \in {"envpartners_occurrences", "envpartners_distances"}
    /\ \E e \in SubplotsOutcomes(PyLen(names)) :
          IF e = "none"
          THEN /\ fig' = [created |-> TRUE, nrows |-> PyLen(names),
                          titles |-> <<>>, plotted |-> <<>>]
               /\ pc' = "loop"
               /\ UNCHANGED exc
          ELSE Raise(e) /\ UNCHANGED fig
    /\ UNCHANGED <<call, names, i, source, data, distances, reads>>

(* lines 160-168 and 237-245: the next item of the loop, its plot area     *)
(* and title.  The table of the previous iteration is dead from here on    *)
(* (data is rebound at line 171 / 248 before it is used again), so the     *)
(* state does not carry it into the next iteration.                        *)
EnvpartnersTitle ==
    /\ pc = "loop"
    /\ i < PyLen(names)
    /\ fig' = [fig EXCEPT !.titles = Append(@, PyItems(names)[i + 1])]
    /\ pc' = "body"
    /\ source' = NoDataFrame
    /\ data' = NoDataFrame
    /\ UNCHANGED <<call, names, i, distances, reads, exc>>

(* envpartners_occurrences, lines 171-193 *)
EnvpartnersOccurrencesBody ==
    /\ pc = "body"
    /\ call.fn = "envpartners_occurrences"
    /\ LET superfeature_name == PyItems(names)[i + 1]
       IN  /\ reads' = Append(reads, Read("envpartners_occurrences", superfeature_name))
           /\ IF IsMissingKey(superfeature_name)
              THEN Raise("KeyError:key") /\ UNCHANGED <<source, data, fig, i>>
              ELSE \E t \in TablesWith(Occurrences, MaxFrames) :
                     \E r \in PrepareDataframeForPlotting(
                                  t, call.frame_range, call.frame_step_size, TRUE) :
                         /\ source' = t
                         /\ IF r.exc # "none"
                            THEN Raise(r.exc) /\ UNCHANGED <<data, fig, i>>
                            ELSE /\ data' = r.df
                                 /\ fig' = [fig EXCEPT !.plotted =
                                              Append(@, IF AllMissing(r.df)
                                                        THEN "placeholder"
                                                        ELSE "barcode")]
                                 /\ i' = i + 1
                                 /\ pc' = "loop"
                                 /\ UNCHANGED exc
    /\ UNCHANGED <<call, names, distances>>

(* envpartners_distances, lines 248-265 *)
EnvpartnersDistancesBody ==
    /\ pc = "body"
    /\ call.fn = "envpartners_distances"
    /\ LET superfeature_name == PyItems(names)[i + 1]
       IN  /\ reads' = Append(reads, Read("envpartners_distances", superfeature_name))
           /\ IF IsMissingKey(superfeature_name)
              THEN Raise("KeyError:key") /\ UNCHANGED <<source, data, fig, i>>
              ELSE \E t \in TablesWith(DistanceValues, MaxFrames) :
                     \E r \in PrepareDataframeForPlotting(
                                  t, call.frame_range, call.frame_step_size, FALSE) :
                         /\ source' = t
                         /\ IF r.exc # "none"
                            THEN Raise(r.exc) /\ UNCHANGED <<data, fig, i>>
                            ELSE /\ data' = r.df
                                 /\ \E e \in IF call.kind = "line" THEN PlotOutcomes(r.df)
                                             ELSE IF call.kind = "hist" THEN HistOutcomes(r.df)
                                             ELSE {"KeyError:kind"} :
                                       IF e # "none"
                                       THEN Raise(e) /\ UNCHANGED <<fig, i>>
                                       ELSE /\ fig' = [fig EXCEPT !.plotted =
                                                         Append(@, call.kind)]
                                            /\ i' = i + 1
                                            /\ pc' = "loop"
                                            /\ UNCHANGED exc
    /\ UNCHANGED <<call, names, distances>>

(* lines 195 and 267: return fig, axes *)
EnvpartnersReturn ==
    /\ pc = "loop"
    /\ i = PyLen(names)
    /\ pc' = "returned"
    /\ UNCHANGED <<call, names, i, source, data, distances, fig, reads, exc>>

(* envpartners_all_in_one, lines 302-305: both tables of the superfeature  *)
(* (same frames, same environment partners), each prepared with the        *)
(* default is_occurrences=True                                             *)
AllInOneData ==
    /\ pc = "data"
    /\ call.fn = "envpartners_all_in_one"
    /\ reads' = reads \o <<Read("envpartners_occurrences", names.value),
                           Read("envpartners_distances", names.value)>>
    /\ \E o \in TablesWith(Occurrences, MaxFrames) :
       \E d \in TablesOver(o.columns, DistanceValues, MaxFrames) :
          /\ NRows(d) = NRows(o)
          /\ \E ro \in PrepareDataframeForPlotting(
                          o, call.frame_range, call.frame_step_size, TRUE),
                rd \in PrepareDataframeForPlotting(
                          d, call.frame_range, call.frame_step_size, TRUE) :
                 /\ source' = d
                 /\ IF ro.exc # "none"
                    THEN Raise(ro.exc) /\ UNCHANGED <<data, distances>>
                    ELSE IF rd.exc # "none"
                    THEN Raise(rd.exc) /\ data' = ro.df /\ UNCHANGED distances
                    ELSE /\ data' = ro.df
                         /\ distances' = rd.df
                         /\ pc' = "figure"
                         /\ UNCHANGED exc
    /\ UNCHANGED <<call, names, i, fig>>

(* envpartners_all_in_one, lines 308-350 *)
AllInOneFigure ==
    /\ pc = "figure"
    /\ call.fn = "envpartners_all_in_one"
    /\ \E e1 \in PlotOutcomes(data), e2 \in PlotOutcomes(distances) :
          LET e == IF e1 # "none" THEN e1
                   ELSE IF NRows(data) = 0 THEN "IndexError"
                   ELSE IF e2 # "none" THEN e2
                   ELSE IF AllMissing(distances) THEN "ValueError"
                   ELSE "none"
          IN  /\ fig' = [created |-> TRUE, nrows |-> 2, titles |-> <<>>,
                         \* what is on the axes when the call ends or raises
                         plotted |->
                            IF e1 # "none" THEN <<>>
                            ELSE IF NRows(data) = 0 THEN <<"barcode">>
                            ELSE IF e2 # "none" THEN <<"barcode", "off">>
                            ELSE IF AllMissing(distances)
                                 THEN <<"barcode", "off", "line">>
                            ELSE <<"barcode", "off", "line", "hist">>]
              /\ IF e = "none" THEN pc' = "returned" /\ UNCHANGED exc
                 ELSE Raise(e)
    /\ UNCHANGED <<call, names, i, source, data, distances, reads>>

Next ==
    \/ CallSuperfeaturesVsEnvpartners
    \/ CallSuperfeaturesOccurrences
    \/ CallEnvpartnersOccurrences
    \/ CallEnvpartnersDistances
    \/ CallEnvpartnersAllInOne
    \/ FormatNames
    \/ AllInOneName
    \/ VsEnvpartnersData
    \/ VsEnvpartnersFigure
    \/ OccurrencesData
    \/ OccurrencesFigure
    \/ OccurrencesPlot
    \/ EnvpartnersFigure
    \/ EnvpartnersTitle
    \/ EnvpartnersOccurrencesBody
    \/ EnvpartnersDistancesBody
    \/ EnvpartnersReturn
    \/ AllInOneData
    \/ AllInOneFigure

Spec == Init /\ [][Next]_vars

---------------------------------------------------------------------------
(* Properties of the table helpers, checked under SpecPrepare *)

PrepareReturned ==
    pc = "returned" /\ call.fn = "_prepare_dataframe_for_plotting"

SliceCalled == pc # "idle" /\ call.fn = "_slice_dataframe_rows"

(* The row positions start, start+s, ... up to min(end, n-1) *)
StridedPositions(n, start, end, s) ==
    {p \in 0..(n - 1) : p >= start /\ p <= end /\ (p - start) % s = 0}

StrictlyIncreasing(s) == \A k \in 1..(Len(s) - 1) : s[k] < s[k + 1]

InputColumnSum(c) ==
    PySum(call.dataframe.values[ColumnPosition(call.dataframe, c)])

(* The input cell at a column label and row label of the prepared table *)
InputCell(c, r) ==
    call.dataframe.values[ColumnPosition(call.dataframe, c)][r + 1]

(* C1 as stated: with step size 1 and 0 <= start <= end the prepared table *)
(* has end-start+1 rows when end <= n-1 and n-start rows when end > n-1.   *)
C1_RowCountAsStated ==
    (/\ pc # "idle"
     /\ call.fn = "_prepare_dataframe_for_plotting"
     /\ call.frame_step_size = 1
     /\ call.frame_range[2] # <<>>
     /\ call.frame_range[1] <= call.frame_range[2][1])
    => LET n     == NRows(call.dataframe)
           start == call.frame_range[1]
           end   == call.frame_range[2][1]
       IN  /\ exc = "none"
           /\ NRows(data) = IF end <= n - 1 THEN end - start + 1 ELSE n - start

(* C1 amended: with step size 1 and 0 <= start <= end the prepared table   *)
(* has end-start+1 rows when end <= n-1, n-start rows when end > n-1 and   *)
(* start <= n, and no rows when start > n.                                 *)
C1_RowCount ==
    (/\ pc # "idle"
     /\ call.fn = "_prepare_dataframe_for_plotting"
     /\ call.frame_step_size = 1
     /\ call.frame_range[2] # <<>>
     /\ call.frame_range[1] <= call.frame_range[2][1])
    => LET n     == NRows(call.dataframe)
           start == call.frame_range[1]
           end   == call.frame_range[2][1]
       IN  /\ exc = "none"
           /\ NRows(data) = IF end <= n - 1 THEN end - start + 1
                            ELSE IF start <= n THEN n - start ELSE 0

(* A step-1 range that is clipped at the last row has been prepared *)
C1_Witness ==
    /\ PrepareReturned
    /\ call.frame_step_size = 1
    /\ call.frame_range[2] # <<>>
    /\ call.frame_range[1] > 0
    /\ call.frame_range[2][1] > NRows(call.dataframe) - 1
    /\ NRows(data) = NRows(call.dataframe) - call.frame_range[1]
    /\ NRows(data) >= 2

(* The 10-frame, 2-column occurrence table of the example *)
TenFrameTable ==
    [columns |-> SubSeq(ColumnLabels, 1, 2),
     index   |-> RangeIndex(10),
     values  |-> [j \in 1..2 |-> [k \in 1..10 |-> (j + k) % 2]]]

(* The slice holds exactly the rows at the strided positions up to `last`, *)
(* in increasing order, each row with the cells of the input row           *)
SliceIsStrided(last) ==
    LET df == call.dataframe
    IN  /\ exc = "none"
        /\ data.columns = df.columns
        /\ StrictlyIncreasing(data.index)
        /\ Range(data.index) =
               StridedPositions(NRows(df), call.frame_range[1], last,
                                call.frame_step_size)
        /\ \A j \in 1..NCols(df) : \A k \in 1..NRows(data) :
               data.values[j][k] = df.values[j][data.index[k] + 1]

TenFrameExample ==
    SliceDataframeRows(TenFrameTable, <<0, <<>>>>, 2) =
        [exc |-> "none", df |-> Iloc(TenFrameTable, <<0, 2, 4, 6, 8>>)]

(* C2 as stated: for every start >= 0, step size s >= 1 and end (any       *)
(* integer, or None for n-1) the slice is exactly the rows at positions    *)
(* start, start+s, ... <= min(end, n-1), increasing and without            *)
(* duplicates; the 10-row table with [0, None] and step 2 gives 0,2,4,6,8. *)
C2_StridedRowsAsStated ==
    /\ TenFrameExample
    /\ SliceCalled =>
          SliceIsStrided(IF call.frame_range[2] = <<>>
                         THEN NRows(call.dataframe) - 1
                         ELSE call.frame_range[2][1])

(* C2 amended: the same for every end >= -1 or None (an end below -1 is    *)
(* refused by islice with a ValueError).                                   *)
C2_StridedRows ==
    /\ TenFrameExample
    /\ (SliceCalled /\ (call.frame_range[2] = <<>> \/ call.frame_range[2][1] >= -1))
         => SliceIsStrided(IF call.frame_range[2] = <<>>
                           THEN NRows(call.dataframe) - 1
                           ELSE call.frame_range[2][1])

(* A slice with step size 2 that took more than one row *)
C2_Witness ==
    /\ SliceCalled
    /\ exc = "none"
    /\ call.frame_step_size = 2
    /\ call.frame_range[2] = <<>>
    /\ NRows(data) >= 2

(* C3: the prepared columns are a permutation of the input columns in      *)
(* non-increasing order of the input table's column sums.                  *)
C3_ColumnsByDescendingSum ==
    PrepareReturned =>
        /\ NCols(data) = NCols(call.dataframe)
        /\ Range(data.columns) = Range(call.dataframe.columns)
        /\ \A j \in 1..(NCols(data) - 1) :
              InputColumnSum(data.columns[j]) >= InputColumnSum(data.columns[j + 1])

(* A table whose columns had to be reordered has been prepared *)
C3_Witness ==
    /\ PrepareReturned
    /\ NCols(data) >= 2
    /\ data.columns # call.dataframe.columns
    /\ InputColumnSum(data.columns[1]) > InputColumnSum(data.columns[2])

(* C4: in an occurrence table prepared with is_occurrences=True every      *)
(* selected 1 becomes the 1-based rank of its column in the descending     *)
(* column-sum order, every selected 0 becomes the missing marker, and no   *)
(* other value appears.                                                    *)
C4_RankRecoding ==
    (PrepareReturned /\ call.is_occurrences) =>
        \A j \in 1..NCols(data) :
            /\ \A d \in 1..NCols(data) :
                  InputColumnSum(data.columns[d]) > InputColumnSum(data.columns[j])
                  => d < j
            /\ \A k \in 1..NRows(data) :
                  LET v == InputCell(data.columns[j], data.index[k])
                  IN  /\ v = 1 => data.values[j][k] = j
                      /\ v = 0 => data.values[j][k] = NoneCell
                      /\ data.values[j][k] \in {j, NoneCell}

(* A prepared occurrence table holding the rank 2 and a missing marker *)
C4_Witness ==
    /\ PrepareReturned
    /\ call.is_occurrences
    /\ NCols(data) >= 2
    /\ NRows(data) >= 2
    /\ \E k \in 1..NRows(data) : data.values[2][k] = 2
    /\ \E k \in 1..NRows(data) : data.values[1][k] = NoneCell
    /\ data.columns # call.dataframe.columns

---------------------------------------------------------------------------
(* Properties of the plotting entry points, checked under Spec *)

Terminated == pc \in {"returned", "raised"}

UsesFormat ==
    call.fn \in {"superfeatures_vs_envpartners", "superfeatures_occurrences",
                 "envpartners_occurrences", "envpartners_distances"}

(* The names a selector asks for, the literal "all" aside *)
RequestedNames(sel) ==
    (IF sel.type = "str" THEN {sel.value} ELSE Range(sel.value)) \ {ALL}

(* A single known name, a list or tuple of known names, or "all" *)
AcceptedSelector(sel) ==
    \/ sel = Str(ALL)
    \/ sel.type = "str" /\ sel.value \in KnownNames
    \/ sel.type \in {"list", "tuple"} /\ Range(sel.value) \subseteq KnownNames

(* C5: once _format_superfeature_names has run, a selector that asks for   *)
(* a name outside the known names has raised the KeyError, and otherwise   *)
(* the result is "all" or a list of known names only.                      *)
C5_UnknownNameRaises ==
    (UsesFormat /\ pc \notin {"idle", "format"}) =>
        IF \E n \in RequestedNames(call.superfeature_names) : n \notin KnownNames
        THEN exc = "KeyError:name"
        ELSE \/ names = Str(ALL)
             \/ names.type = "list" /\ Range(names.value) \subseteq KnownNames

(* C6: a call of envpartners_distances with a kind other than "line" and   *)
(* "hist" and an accepted selector ends with the KeyError of the kind.     *)
C6_UnknownKindRaises ==
    (/\ call.fn = "envpartners_distances"
     /\ Terminated
     /\ call.kind \notin {"line", "hist"}
     /\ AcceptedSelector(call.superfeature_names))
    => exc = "KeyError:kind"

(* C7: a plotting function whose prepared table is empty or holds only     *)
(* missing markers completes and returns its figure.                       *)
C7_EmptySliceTolerated ==
    (/\ call.fn \in {"superfeatures_occurrences", "envpartners_occurrences",
                     "envpartners_distances", "envpartners_all_in_one"}
     /\ call.fn = "envpartners_distances" => call.kind \in {"line", "hist"}
     /\ Terminated
     /\ data.columns # <<>>
     /\ AllMissing(data))
    => pc = "returned" /\ exc = "none"

(* C8: in each of the five plotting functions the failure for an         *)
(* unrecognized superfeature name is raised before any table of the        *)
(* dynophore is accessed and before any figure is created: no call has     *)
(* accessed a table or created a figure and ends with that failure.        *)
C8_UnknownNameBeforeDataAndFigure ==
    exc = "KeyError:name" => ~fig.created /\ reads = <<>>

(* A call with a list holding an unknown name has ended with the failure *)
C8_Witness ==
    /\ pc = "raised"
    /\ exc = "KeyError:name"
    /\ call.fn = "superfeatures_vs_envpartners"
    /\ call.superfeature_names.type = "list"
    /\ UnknownName \in Range(call.superfeature_names.value)

(* The number of superfeatures a resolved selector asks for *)
RequestedCount ==
    IF names = Str(ALL) THEN Cardinality(KnownNames) ELSE Len(names.value)

(* C9: in envpartners_occurrences and envpartners_distances the figure has *)
(* one plot area per requested superfeature, and every plot title and      *)
(* every table key is a known superfeature name.                           *)
C9_OnePlotPerKnownName ==
    call.fn \in {"envpartners_occurrences", "envpartners_distances"} =>
        /\ fig.created => fig.nrows = RequestedCount
        /\ \A k \in 1..Len(fig.titles) : fig.titles[k] \in KnownNames
        /\ \A k \in 1..Len(reads) : reads[k].key \in KnownNames

(* The prepared distance table of the running call *)
PreparedDistances ==
    IF call.fn = "envpartners_all_in_one" THEN distances ELSE data

(* C10: every cell of a prepared distance table equals the cell of the     *)
(* distance table read from the dynophore at the same frame and column.    *)
C10_DistancesNotRecoded ==
    call.fn \in {"envpartners_distances", "envpartners_all_in_one"} =>
        LET d == PreparedDistances
        IN  \A j \in 1..NCols(d) : \A k \in 1..NRows(d) :
               d.values[j][k] =
                   source.values[ColumnPosition(source, d.columns[j])][d.index[k] + 1]

====
